---- MODULE Spec2Model ----
(***************************************************************************)
(* A model of the Naive-Chess-Engine: the incremental board (board.py),    *)
(* the piece tables (pieces.py), the search tree (engine.py) and the game  *)
(* session (game.py).                                                      *)
(*                                                                         *)
(* Representation.  A Square is the integer col * 8 + row (a1 = 0,         *)
(* a2 = 1, b1 = 8, h8 = 63); OffBoard stands for every Square object for   *)
(* which is_valid() is false (the code never steps on from such a square). *)
(* A GamePiece object is the record [id, square, moved]: id is its uuid    *)
(* (the 32 pieces of Game.generate_starting_position, numbered in the      *)
(* order of that dict), which fixes its type and colour.  Python sets and  *)
(* dicts of GamePiece compare by uuid, so a set holds at most one object    *)
(* per id, but that object may be an older copy (an older square) than the *)
(* one standing on the board; the model keeps which copy it is.            *)
(*                                                                         *)
(* GamePiece.possible_squares is a cache that only grows while an object   *)
(* lives (move() clears it on the fresh deep copy only).  The full scan    *)
(* made when an object is created walks every vector to the edge of the    *)
(* board or to max_distance, whatever stands in the way, so the cache is   *)
(* initial_cache(piece) from then on, plus what update_moves adds later:   *)
(* it restarts the distance count at the disturbed square, which adds      *)
(* squares only for a vector with 1 < max_distance < infinity.  Those      *)
(* additions are made on objects shared by every board cloned from the     *)
(* same ancestor; the variable ext is that shared part of the heap.        *)
(***************************************************************************)
EXTENDS Integers, Sequences, FiniteSets, TLC

VARIABLES
    board,      \* the Board the caller currently holds
    ext,        \* shared heap: << GamePiece, square >> cached beyond the initial scan
    outcome,    \* how the last operation ended: "ok" or the exception raised
    plies,      \* number of moves applied since the start position
    captured,   \* history: sequence of ids of the pieces captured so far
    start_id,   \* which start position the run began from
    tree,       \* the MoveNode objects made so far, by name
    root,       \* Engine.root
    depth,      \* Engine.depth
    pc,         \* where the Engine is: "idle", or in build_tree at "while" / "for"
    current_leaves, \* build_tree: the leaves of the snapshot the for loop has yet to visit
    moves_made, \* history: number of Engine.make_move calls that re-rooted the tree
    config,     \* which Engine configuration the run began from
    call,       \* a Square.to_name / Square.from_name call: its argument and result
    history,    \* Game.history
    pending     \* the move of the Game.make_move call in progress, if any

board_vars == << board, plies, captured, start_id >>
tree_vars == << tree, root, depth, pc, current_leaves, moves_made, config >>
name_vars == << call >>
game_vars == << history, pending >>
vars == << board, ext, outcome, plies, captured, start_id,
           tree, root, depth, pc, current_leaves, moves_made, config, call,
           history, pending >>

---------------------------------------------------------------------------
(* pieces.py *)

WHITE == "white"
BLACK == "black"
Colors == {WHITE, BLACK}

PAWN == "pawn"
KNIGHT == "knight"
BISHOP == "bishop"
ROOK == "rook"
QUEEN == "queen"
KING == "king"

\* math.inf of MovementVector.max_distance: larger than any walk on the board
INF == 64

MovementVector(direction, max_distance, can_capture, can_only_capture) ==
    [direction |-> direction, max_distance |-> max_distance,
     can_capture |-> can_capture, can_only_capture |-> can_only_capture]

\* a pawn that may never advance two squares
PawnVectors_single_step(color, has_moved) ==
    LET direction == IF color = WHITE THEN 1 ELSE -1
    IN  << MovementVector(<<0, direction>>, 1, FALSE, FALSE),
           MovementVector(<<1, direction>>, 1, TRUE, TRUE),
           MovementVector(<<-1, direction>>, 1, TRUE, TRUE) >>

PawnVectors(color, has_moved) ==
    LET direction == IF color = WHITE THEN 1 ELSE -1
    IN  << MovementVector(<<0, direction>>, IF has_moved THEN 1 ELSE 2, FALSE, FALSE),
           MovementVector(<<1, direction>>, 1, TRUE, TRUE),
           MovementVector(<<-1, direction>>, 1, TRUE, TRUE) >>

KnightVectors ==
    << MovementVector(<<1, 2>>, 1, TRUE, FALSE),
       MovementVector(<<2, 1>>, 1, TRUE, FALSE),
       MovementVector(<<2, -1>>, 1, TRUE, FALSE),
       MovementVector(<<1, -2>>, 1, TRUE, FALSE),
       MovementVector(<<-1, -2>>, 1, TRUE, FALSE),
       MovementVector(<<-2, -1>>, 1, TRUE, FALSE),
       MovementVector(<<-2, 1>>, 1, TRUE, FALSE),
       MovementVector(<<-1, 2>>, 1, TRUE, FALSE) >>

BishopVectors ==
    << MovementVector(<<1, 1>>, INF, TRUE, FALSE),
       MovementVector(<<1, -1>>, INF, TRUE, FALSE),
       MovementVector(<<-1, -1>>, INF, TRUE, FALSE),
       MovementVector(<<-1, 1>>, INF, TRUE, FALSE) >>

RookVectors ==
    << MovementVector(<<1, 0>>, INF, TRUE, FALSE),
       MovementVector(<<0, 1>>, INF, TRUE, FALSE),
       MovementVector(<<-1, 0>>, INF, TRUE, FALSE),
       MovementVector(<<0, -1>>, INF, TRUE, FALSE) >>

QueenVectors == RookVectors \o BishopVectors

KingVectors ==
    [i \in 1..Len(QueenVectors) |->
        MovementVector(QueenVectors[i].direction, 1, TRUE, FALSE)]

PieceValue(type) ==
    CASE type = PAWN -> 1
      [] type = KNIGHT -> 3
      [] type = BISHOP -> 3
      [] type = ROOK -> 5
      [] type = QUEEN -> 9
      [] type = KING -> 0

---------------------------------------------------------------------------
(* game.py: the 32 pieces of generate_starting_position, in dict order *)

PieceIds == 1..32

BackRank == << ROOK, KNIGHT, BISHOP, QUEEN, KING, BISHOP, KNIGHT, ROOK >>

TypeOf(id) ==
    IF id <= 8 THEN BackRank[id]
    ELSE IF id <= 24 THEN PAWN
    ELSE BackRank[id - 24]

ColorOf(id) == IF id <= 16 THEN WHITE ELSE BLACK

---------------------------------------------------------------------------
(* board.py: Square *)

OffBoard == 64
Squares == 0..63

Square(col, row) == col * 8 + row
ColOf(sq) == sq \div 8
RowOf(sq) == sq % 8

is_valid(sq) == sq \in Squares

apply_diff(sq, direction) ==
    LET new_col == ColOf(sq) + direction[1]
        new_row == RowOf(sq) + direction[2]
    IN  IF sq = OffBoard \/ new_col < 0 \/ new_col >= 8 \/ new_row < 0 \/ new_row >= 8
        THEN OffBoard
        ELSE Square(new_col, new_row)

\* Square._cols, Square._rows (lines 15-16); a str is the sequence of its
\* characters
Square_cols == << "a", "b", "c", "d", "e", "f", "g", "h" >>
Square_rows == << "1", "2", "3", "4", "5", "6", "7", "8" >>

\* list.index
list_index(list, x) == (CHOOSE i \in 1..Len(list) : list[i] = x /\ \A j \in 1..(i - 1) : list[j] # x) - 1

\* Square.get_position, of a valid Square
get_position(sq) == << Square_cols[ColOf(sq) + 1], Square_rows[RowOf(sq) + 1] >>

\* Square.to_name: "".join(self.get_position())
to_name(sq) == << get_position(sq)[1] >> \o << get_position(sq)[2] >>

\* a from_name that reads the first two characters of any longer name
from_name_prefix(name) ==
    IF Len(name) < 2
    THEN [error |-> "ValueError", square |-> OffBoard]
    ELSE IF (\A i \in 1..8 : Square_cols[i] # name[1]) \/ (\A i \in 1..8 : Square_rows[i] # name[2])
    THEN [error |-> "ValueError", square |-> OffBoard]
    ELSE [error |-> "none", square |-> Square(list_index(Square_cols, name[1]), list_index(Square_rows, name[2]))]

\* Square.from_name lines 45-53: the Square made, or the ValueError raised
from_name(name) ==
    IF Len(name) # 2
    THEN [error |-> "ValueError", square |-> OffBoard]
    ELSE LET col_name == name[1]
             row_name == name[2]
         IN  IF (\A i \in 1..Len(Square_cols) : Square_cols[i] # col_name)
                \/ (\A i \in 1..Len(Square_rows) : Square_rows[i] # row_name)
             THEN [error |-> "ValueError", square |-> OffBoard]
             ELSE [error |-> "none",
                   square |-> Square(list_index(Square_cols, col_name), list_index(Square_rows, row_name))]

(* board.py: Move, EmptyMove *)
Move(start, end) == << start, end >>
EmptyMove == << OffBoard, OffBoard >>
\* prepare_moves' move = None
None == << >>

(* board.py: GamePiece *)
GamePiece(id, square, moved) == [id |-> id, square |-> square, moved |-> moved]
NoPiece == [id |-> 0, square |-> OffBoard, moved |-> FALSE]

vectors(piece) ==
    LET type == TypeOf(piece.id)
    IN  CASE type = PAWN -> PawnVectors(ColorOf(piece.id), piece.moved)
          [] type = KNIGHT -> KnightVectors
          [] type = BISHOP -> BishopVectors
          [] type = ROOK -> RookVectors
          [] type = QUEEN -> QueenVectors
          [] type = KING -> KingVectors

\* the squares GamePiece._generate_moves yields from `sq` on, counting from `distance`
RECURSIVE generate_moves(_, _, _)
generate_moves(vector, sq, distance) ==
    IF distance > vector.max_distance \/ ~is_valid(sq)
    THEN << >>
    ELSE << sq >> \o generate_moves(vector, apply_diff(sq, vector.direction), distance + 1)

SeqToSet(s) == {s[i] : i \in 1..Len(s)}

\* possible_squares right after the full scan of initialize_moves
initial_cache(piece) ==
    UNION {SeqToSet(generate_moves(vectors(piece)[i],
                                   apply_diff(piece.square, vectors(piece)[i].direction), 1))
           : i \in 1..Len(vectors(piece))}

\* the keys of piece.possible_squares, h being the shared part of the heap
possible_squares(piece, h) ==
    initial_cache(piece) \cup {p[2] : p \in {q \in h : q[1] = piece}}

\* piece.possible_squares[sq]: the vector whose walk cached sq
RECURSIVE on_ray(_, _, _, _)
on_ray(from, direction, sq, steps) ==
    IF steps = 0 \/ from = OffBoard THEN FALSE
    ELSE LET next == apply_diff(from, direction)
         IN  next = sq \/ on_ray(next, direction, sq, steps - 1)

cached_vector(piece, sq) ==
    LET vs == vectors(piece)
        i == CHOOSE j \in 1..Len(vs) : on_ray(piece.square, vs[j].direction, sq, 7)
    IN  vs[i]

---------------------------------------------------------------------------
(* Python containers of GamePiece: membership, add and discard go by uuid *)

set_has(pieces, piece) == \E p \in pieces : p.id = piece.id
set_add(pieces, piece) == IF set_has(pieces, piece) THEN pieces ELSE pieces \cup {piece}
set_discard(pieces, piece) == {p \in pieces : p.id # piece.id}

\* _available_moves is a defaultdict(set): reading a missing key inserts it
NoEntry == [key |-> NoPiece, squares |-> {}]
dict_touch(moves, piece) ==
    IF moves[piece.id].key = NoPiece
    THEN [moves EXCEPT ![piece.id] = [key |-> piece, squares |-> {}]]
    ELSE moves
dict_add(moves, piece, sq) ==
    LET entry == dict_touch(moves, piece)[piece.id]
    IN  [moves EXCEPT ![piece.id] = [key |-> entry.key, squares |-> entry.squares \cup {sq}]]
dict_discard(moves, piece, sq) ==
    LET entry == dict_touch(moves, piece)[piece.id]
    IN  [moves EXCEPT ![piece.id] = [key |-> entry.key, squares |-> entry.squares \ {sq}]]

---------------------------------------------------------------------------
(* board.py: KingLocations *)

KingLocations(white, black) == [w \in Colors |-> IF w = WHITE THEN white ELSE black]

KingLocations_move(locations, move) ==
    IF move[1] \notin {locations[WHITE], locations[BLACK]}
    THEN locations
    ELSE KingLocations(IF locations[WHITE] = move[1] THEN move[2] ELSE locations[WHITE],
                       IF locations[BLACK] = move[1] THEN move[2] ELSE locations[BLACK])

(* board.py: CheckVectors.  vectors is a list of paths; add returns the path, *)
(* or ok = FALSE where the code raises ValueError                            *)

RECURSIVE add_path(_, _, _, _)
add_path(vector, new_square, king, distance) ==
    IF distance + 1 > vector.max_distance
    THEN [ok |-> FALSE, path |-> << >>]
    ELSE LET next == apply_diff(new_square, vector.direction)
         IN  IF ~is_valid(next) THEN [ok |-> FALSE, path |-> << >>]
             ELSE IF next = king THEN [ok |-> TRUE, path |-> << new_square >>]
             ELSE LET rest == add_path(vector, next, king, distance + 1)
                  IN  [ok |-> rest.ok, path |-> << new_square >> \o rest.path]

CheckVectors_add(attacker, king, vector) ==
    IF ~vector.can_capture
    THEN [ok |-> FALSE, path |-> << >>]
    ELSE add_path(vector, attacker, king, 0)

\* a blocking set that leaves out the attacker's square
blocking_squares_without_attacker(check_vectors) ==
    IF Len(check_vectors) # 1 THEN {} ELSE SeqToSet(Tail(check_vectors[1]))

blocking_squares(check_vectors) ==
    IF Len(check_vectors) # 1 THEN {} ELSE SeqToSet(check_vectors[1])

(* board.py: BoardState *)

Other(color) == IF color = BLACK THEN WHITE ELSE BLACK

BoardState(last_move, turn, material, checks, king_squares) ==
    [last_move |-> last_move,
     turn |-> turn,
     next_turn |-> Other(turn),
     material |-> material,
     check_vectors |-> [c \in Colors |-> IF c = turn THEN checks ELSE << >>],
     king_squares |-> king_squares]

take_turn(state) ==
    [state EXCEPT !.turn = state.next_turn, !.next_turn = state.turn]

---------------------------------------------------------------------------
(* board.py: Board.  A run of a Board method is threaded through a machine  *)
(* record m = [board, heap, error]: the Board being mutated, the shared     *)
(* part of the piece caches, and the exception raised so far ("none").      *)

NONE == "none"
InvalidPositionException == "InvalidPositionException"
ValueError == "ValueError"
KeyError == "KeyError"

raise(m, exception) == [m EXCEPT !.error = exception]

\* GamePiece._generate_moves line 100: possible_squares[new_square] = vector
\* (`known` are the keys the cache held when the walk began)
cache_square(m, piece, sq, known) ==
    IF sq \in known \/ << piece, sq >> \in m.heap THEN m
    ELSE [m EXCEPT !.heap = m.heap \cup {<< piece, sq >>}]

\* the body of prepare_moves' inner loop for one candidate (lines 262-283)
visit(m, piece, vector, sq, terminated) ==
    LET b == m.board
        seen == [m EXCEPT !.board.relevant_piece_squares[sq] =
                            set_add(b.relevant_piece_squares[sq], piece)]
        add == [seen EXCEPT !.board.available_moves =
                            dict_add(b.available_moves, piece, sq)]
        discard == [seen EXCEPT !.board.available_moves =
                            dict_discard(b.available_moves, piece, sq)]
    IN  IF terminated
        THEN [m EXCEPT !.board.relevant_piece_squares[sq] =
                            set_discard(b.relevant_piece_squares[sq], piece),
                       !.board.available_moves =
                            dict_discard(b.available_moves, piece, sq)]
        ELSE IF b.position[sq] # NoPiece
        THEN LET held_by == b.position[sq]
             IN  IF ColorOf(held_by.id) # ColorOf(piece.id) /\ vector.can_capture
                 THEN IF TypeOf(held_by.id) = KING
                      THEN IF ColorOf(held_by.id) = b.state.next_turn
                           THEN raise(seen, InvalidPositionException)
                           ELSE LET added == CheckVectors_add(piece.square, held_by.square, vector)
                                IN  IF ~added.ok THEN raise(seen, ValueError)
                                    ELSE [add EXCEPT
                                            !.board.state.check_vectors[ColorOf(held_by.id)] =
                                                Append(b.state.check_vectors[ColorOf(held_by.id)],
                                                       added.path)]
                      ELSE add
                 ELSE discard
        ELSE IF ~vector.can_only_capture THEN add ELSE discard

\* prepare_moves consuming one generator of _generate_moves (lines 92-103, 260-283)
RECURSIVE walk(_, _, _, _, _, _, _)
walk(m, piece, vector, sq, distance, terminated, known) ==
    IF m.error # NONE \/ distance > vector.max_distance \/ ~is_valid(sq)
    THEN m
    ELSE LET visited == visit(cache_square(m, piece, sq, known), piece, vector, sq, terminated)
         IN  walk(visited, piece, vector, apply_diff(sq, vector.direction), distance + 1,
                  terminated \/ m.board.position[sq] # NoPiece, known)

\* prepare_moves(piece): the full scan of initialize_moves
RECURSIVE scan_vectors(_, _, _, _)
scan_vectors(m, piece, i, known) ==
    IF i > Len(vectors(piece)) \/ m.error # NONE THEN m
    ELSE scan_vectors(
            walk(m, piece, vectors(piece)[i],
                 apply_diff(piece.square, vectors(piece)[i].direction), 1, FALSE, known),
            piece, i + 1, known)

initialize_moves(m, piece) == scan_vectors(m, piece, 1, initial_cache(piece))

\* prepare_moves(piece, move): the rescan of update_moves.  The generator tests
\* move.end only after the walk from move.start has been consumed.
update_moves(m, piece, move) ==
    LET known == possible_squares(piece, m.heap)
        first ==
            IF move[1] \in known
            THEN walk(m, piece, cached_vector(piece, move[1]), move[1], 1, FALSE, known)
            ELSE m
    IN  IF first.error = NONE /\ (move[2] \in known \/ << piece, move[2] >> \in first.heap)
        THEN walk(first, piece, cached_vector(piece, move[2]), move[2], 1, FALSE, known)
        ELSE first

prepare_moves(m, piece, move) ==
    IF move = None THEN initialize_moves(m, piece) ELSE update_moves(m, piece, move)

---------------------------------------------------------------------------
(* board.py: Board.__init__, rebuild, make_move, make_child *)

EmptyPosition == [sq \in Squares |-> NoPiece]
EmptyRelevant == [sq \in Squares |-> {}]
EmptyAvailable == [id \in PieceIds |-> NoEntry]

\* Board(position, state): `placed` lists the GamePiece objects of the position
\* dict in its order; the two indexes start as empty defaultdicts
Board(placed, state) ==
    [position |-> [sq \in Squares |->
                      IF \E i \in 1..Len(placed) : placed[i].square = sq
                      THEN placed[CHOOSE i \in 1..Len(placed) : placed[i].square = sq]
                      ELSE NoPiece],
     relevant_piece_squares |-> EmptyRelevant,
     available_moves |-> EmptyAvailable,
     state |-> state]

Machine(b, h) == [board |-> b, heap |-> h, error |-> NONE]

RECURSIVE rebuild_from(_, _, _)
rebuild_from(m, placed, i) ==
    IF i > Len(placed) \/ m.error # NONE THEN m
    ELSE rebuild_from(prepare_moves(m, placed[i], None), placed, i + 1)

\* rebuild(): a full scan of every piece, in the order of the position dict
rebuild(m, placed) ==
    rebuild_from([m EXCEPT !.board.relevant_piece_squares = EmptyRelevant,
                           !.board.available_moves = EmptyAvailable],
                 placed, 1)

\* the loop of make_move lines 251-252 over relevant_piece_squares[move.start],
\* here by ascending id.  A Python set of GamePiece iterates in an order that
\* differs from run to run; the rescans of different pieces read the position
\* and their own cache and write disjoint entries (each its own set
\* memberships, dict entry and cache; the order of the check paths in the list
\* is read nowhere), so the order shows only in what ran before an exception
\* ended the loop.
RECURSIVE rescan(_, _, _)
rescan(m, pieces, move) ==
    IF pieces = {} \/ m.error # NONE THEN m
    ELSE LET piece == CHOOSE p \in pieces : \A q \in pieces : p.id <= q.id
         IN  rescan(prepare_moves(m, piece, move), pieces \ {piece}, move)

\* the machines the loop can end in: one if no rescan raises; otherwise the
\* Board is dropped by the caller, and the exception and the shared heap are
\* those of some raising piece q met after some of the pieces that do not raise
rescan_outcomes(m, pieces, move) ==
    LET in_order == rescan(m, pieces, move)
        each == [p \in pieces |-> prepare_moves(m, p, move)]
        raisers == {p \in pieces : each[p].error # NONE}
    IN  IF in_order.error = NONE
        THEN {in_order}
        ELSE {[board |-> m.board,
               heap |-> each[q].heap \cup UNION {each[p].heap : p \in before},
               error |-> each[q].error] :
                q \in raisers, before \in SUBSET (pieces \ raisers)}

\* a capture that adds the captured piece's value whatever its color
capture_unsigned(b, captured_piece, h) ==
    LET cached == possible_squares(captured_piece, h)
    IN
    [b EXCEPT
        !.state.material = b.state.material + PieceValue(TypeOf(captured_piece.id)),
        !.available_moves[captured_piece.id] = NoEntry,
        !.relevant_piece_squares =
            [sq \in Squares |->
                IF sq \in cached
                THEN set_discard(b.relevant_piece_squares[sq], captured_piece)
                ELSE b.relevant_piece_squares[sq]]]

\* make_move lines 240-245: the capture
capture(b, captured_piece, h) ==
    LET cached == possible_squares(captured_piece, h)
    IN
    [b EXCEPT
        !.state.material = b.state.material + PieceValue(TypeOf(captured_piece.id))
                               * (IF ColorOf(captured_piece.id) = BLACK THEN 1 ELSE -1),
        !.available_moves[captured_piece.id] = NoEntry,
        !.relevant_piece_squares =
            [sq \in Squares |->
                IF sq \in cached
                THEN set_discard(b.relevant_piece_squares[sq], captured_piece)
                ELSE b.relevant_piece_squares[sq]]]

\* make_move: the set of machines the call can end in (one unless it raises)
make_move(m, move) ==
    LET b == m.board
        start == move[1]
        end == move[2]
        old == b.position[start]
        \* the deep copy of line 229, as move() leaves it at line 246
        moved_piece == GamePiece(old.id, end, TRUE)
        cached == possible_squares(old, m.heap)
        \* lines 230-235: the dict entry and the set members become the copy
        rekeyed == [b EXCEPT
            !.available_moves[old.id] = [key |-> moved_piece, squares |-> {}],
            !.relevant_piece_squares =
                [sq \in Squares |->
                    IF /\ sq \in cached
                       /\ set_has(b.relevant_piece_squares[sq], old)
                    THEN set_discard(b.relevant_piece_squares[sq], old) \cup {moved_piece}
                    ELSE b.relevant_piece_squares[sq]]]
        captured_piece == b.position[end]
        taken == IF captured_piece # NoPiece
                 THEN capture(rekeyed, captured_piece, m.heap) ELSE rekeyed
        placed == [taken EXCEPT !.position[end] = moved_piece,
                                !.position[start] = NoPiece,
                                !.state = take_turn(taken.state)]
        scanned == prepare_moves([m EXCEPT !.board = placed], moved_piece, None)
    IN  IF old = NoPiece THEN {raise(m, ValueError)}
        ELSE IF b.available_moves[old.id].key = NoPiece THEN {raise(m, KeyError)}
        \* lines 236-239, after the writes of lines 230-235
        ELSE IF ColorOf(old.id) # b.state.turn
        THEN {raise([m EXCEPT !.board = rekeyed], ValueError)}
        ELSE IF captured_piece # NoPiece /\ rekeyed.available_moves[captured_piece.id].key = NoPiece
        THEN {raise(m, KeyError)}
        ELSE IF scanned.error # NONE THEN {scanned}
        ELSE rescan_outcomes(scanned, scanned.board.relevant_piece_squares[start], move)

\* make_child lines 211-222: the Board made for the child, before make_move
child_board(b, move) ==
    [position |-> b.position,
     relevant_piece_squares |-> b.relevant_piece_squares,
     available_moves |-> b.available_moves,
     state |-> BoardState(move, b.state.turn, b.state.material,
                          b.state.check_vectors[b.state.turn],
                          KingLocations_move(b.state.king_squares, move))]

make_child_outcomes(m, move) ==
    make_move([m EXCEPT !.board = child_board(m.board, move)], move)

---------------------------------------------------------------------------
(* board.py: generate_legal_moves.  The generator's candidates, each of     *)
(* which it hands to make_child; `again` are those it hands over a second   *)
(* time, `board` is the Board after the defaultdict reads of the            *)
(* enumeration, `error` what the generator itself raises.                   *)

Candidates(b, moves, again, error) ==
    [board |-> b, moves |-> moves, again |-> again, error |-> error]

generate_legal_moves_from_check(b) ==
    LET turn == b.state.turn
        king_square == b.state.king_squares[turn]
        king == b.position[king_square]
        with_king == [b EXCEPT !.available_moves = dict_touch(b.available_moves, king)]
        king_moves == {Move(king.square, sq) : sq \in with_king.available_moves[king.id].squares}
        blocking == blocking_squares(b.state.check_vectors[turn])
        \* a Python set keeps the first object added for a uuid; which of two
        \* copies of a piece that is depends on the set's order, so both count
        blocking_pieces ==
            {p \in UNION {b.relevant_piece_squares[sq] : sq \in blocking} :
                ColorOf(p.id) = turn}
        touched == [with_king EXCEPT !.available_moves =
                        [id \in PieceIds |->
                            IF /\ with_king.available_moves[id].key = NoPiece
                               /\ \E p \in blocking_pieces : p.id = id
                            THEN [key |-> CHOOSE p \in blocking_pieces : p.id = id,
                                  squares |-> {}]
                            ELSE with_king.available_moves[id]]]
        blocks == {Move(p.square, sq) : p \in blocking_pieces, sq \in blocking}
        block_moves == {mv \in blocks :
                            \E p \in blocking_pieces :
                                /\ p.square = mv[1]
                                /\ mv[2] \in touched.available_moves[p.id].squares}
    IN  IF king = NoPiece THEN Candidates(b, {}, {}, ValueError)
        \* lines 306-310, then lines 316-323: the king is a blocking piece too
        \* when it sees a blocking square
        ELSE Candidates(touched, king_moves \cup block_moves,
                        king_moves \cap block_moves, NONE)

\* an enumeration that never takes the branch of lines 286-289
generate_legal_moves_unrestricted(b) ==
    Candidates(b,
        UNION {{Move(b.available_moves[id].key.square, sq) :
                    sq \in b.available_moves[id].squares}
               : id \in {i \in PieceIds : /\ b.available_moves[i].key # NoPiece
                                          /\ ColorOf(i) = b.state.turn}},
        {}, NONE)

generate_legal_moves(b) ==
    IF b.state.check_vectors[b.state.turn] # << >>
    THEN generate_legal_moves_from_check(b)
    ELSE Candidates(b,
            UNION {{Move(b.available_moves[id].key.square, sq) :
                        sq \in b.available_moves[id].squares}
                   : id \in {i \in PieceIds : /\ b.available_moves[i].key # NoPiece
                                              /\ ColorOf(i) = b.state.turn}},
            {}, NONE)

---------------------------------------------------------------------------
(* engine.py: MoveNode.                                                     *)
(*                                                                          *)
(* A MoveNode object is named << path, gen >>: the moves from the Engine's  *)
(* first root down to it, and how many nodes were made on that path before  *)
(* it (a node that is expanded twice makes its children twice).  `nodes`    *)
(* maps each object made so far to its fields.                              *)
(*                                                                          *)
(* leaf_nodes holds the content of the node's current set object.  An entry *)
(* of _child_leaves is the reference update_child_leaves stored, a child's  *)
(* set object: while that child has not rebound its leaf_nodes the entry is *)
(* `live` and reads the child's set as it is now; once _reset_children has  *)
(* given the child a new set, the entry keeps the old object, which nothing *)
(* changes any more (`frozen`).                                             *)

NoNode == << << >>, -1 >>

EmptyMap == [x \in {} |-> 0]
map_put(f, k, v) == (k :> v) @@ f
put(nodes, id, node) == map_put(nodes, id, node)

\* a score: the float num / 2^exp, num odd or exp = 0
RECURSIVE Float(_, _)
Float(num, exp) ==
    IF num = 0 THEN [num |-> 0, exp |-> 0]
    ELSE IF exp > 0 /\ num % 2 = 0 THEN Float(num \div 2, exp - 1)
    ELSE [num |-> num, exp |-> exp]

\* num * 2^k, left as it is once it exceeds every numerator of a score
RECURSIVE scaled(_, _)
scaled(num, k) ==
    IF k = 0 \/ num = 0 \/ num > 1000000 \/ num < -1000000 THEN num
    ELSE scaled(2 * num, k - 1)

float_less(a, b) ==
    LET e == IF a.exp < b.exp THEN a.exp ELSE b.exp
    IN  scaled(a.num, b.exp - e) < scaled(b.num, a.exp - e)

\* the moves of a set or dict one by one, by square (start, then end).  The
\* code walks them in the iteration order of Python sets; where that order
\* shows in a result, the result is kept free of it (see calculate_score).
min_move(moves) ==
    CHOOSE m \in moves : \A n \in moves : m[1] * 64 + m[2] <= n[1] * 64 + n[2]

\* the fields _reset_children sets (lines 30-39), on a node of this board
Node(node_board, parent, move_number) ==
    [board |-> node_board,
     parent |-> parent,
     move_number |-> move_number,
     children |-> EmptyMap,
     size |-> 1,
     child_sizes |-> EmptyMap,
     score |-> Float(node_board.state.material, 0),
     sorted_child_scores |-> << >>,
     leaf_nodes |-> {},
     child_leaves |-> EmptyMap,
     is_checkmate |-> FALSE,
     is_stalemate |-> FALSE]

reset_children(node) == Node(node.board, node.parent, node.move_number)

\* the set object an entry of _child_leaves refers to, as it is now
leaves_of(nodes, ref) == IF ref.live THEN nodes[ref.of].leaf_nodes ELSE ref.frozen

\* self.leaf_nodes = set() on a node whose old set its parent still refers to
rebind_leaf_nodes(nodes, self) ==
    LET parent == nodes[self].parent
        move == nodes[self].board.state.last_move
    IN  IF parent = NoNode THEN nodes
        ELSE IF move \notin DOMAIN nodes[parent].child_leaves THEN nodes
        ELSE LET ref == nodes[parent].child_leaves[move]
             IN  IF ref.live /\ ref.of = self
                 THEN put(nodes, parent,
                          [nodes[parent] EXCEPT !.child_leaves =
                              map_put(nodes[parent].child_leaves, move,
                                      [of |-> self, live |-> FALSE,
                                       frozen |-> nodes[self].leaf_nodes])])
                 ELSE nodes

RECURSIVE update_child_size(_, _, _)
update_child_size(nodes, self, child) ==
    LET node == nodes[self]
        move == nodes[child].board.state.last_move
        old_size == IF move \in DOMAIN node.child_sizes THEN node.child_sizes[move] ELSE 0
        updated == put(nodes, self,
                       [node EXCEPT !.size = node.size - old_size + nodes[child].size,
                                    !.child_sizes = map_put(node.child_sizes, move,
                                                            nodes[child].size)])
    IN  IF node.parent # NoNode
        THEN update_child_size(updated, node.parent, self)
        ELSE updated

RECURSIVE update_child_leaves(_, _, _)
update_child_leaves(nodes, self, child) ==
    LET node == nodes[self]
        move == nodes[child].board.state.last_move
        old_leaves == IF move \in DOMAIN node.child_leaves
                      THEN leaves_of(nodes, node.child_leaves[move])
                      ELSE {}
        updated == put(nodes, self,
                       [node EXCEPT !.leaf_nodes =
                                        (node.leaf_nodes \ old_leaves)
                                            \cup nodes[child].leaf_nodes,
                                    !.child_leaves =
                                        map_put(node.child_leaves, move,
                                                [of |-> child, live |-> TRUE,
                                                 frozen |-> {}])])
    IN  IF node.parent # NoNode
        THEN update_child_leaves(updated, node.parent, self)
        ELSE updated

\* the name of the next object made for this board under this parent
node_id(nodes, node_board, parent) ==
    LET path == IF parent = NoNode THEN << >>
                ELSE Append(parent[1], node_board.state.last_move)
    IN  << path, Cardinality({n \in DOMAIN nodes : n[1] = path}) >>

\* MoveNode(board, parent), lines 20-28
MoveNode(nodes, node_board, parent) ==
    LET self == node_id(nodes, node_board, parent)
        made == Node(node_board, parent,
                     IF parent = NoNode THEN 0 ELSE nodes[parent].move_number + 1)
        added == put(nodes, self, [made EXCEPT !.leaf_nodes = {self}])
    IN  IF parent = NoNode THEN added
        ELSE update_child_leaves(update_child_size(added, parent, self), parent, self)

\* t = [nodes, heap, error]: the loop of prepare_children lines 44-47 over the
\* candidates of generate_legal_moves that are left, from the board b
RECURSIVE expand(_, _, _, _, _)
expand(t, self, b, moves, again) ==
    IF moves = {} /\ again = {} THEN {t}
    \* a candidate yielded twice makes a second child, which takes the place
    \* of the first in self.children
    ELSE IF moves = {} THEN expand(t, self, b, again, {})
    ELSE LET move == min_move(moves)
             rest == moves \ {move}
         IN  UNION {IF m.error = NONE
                    THEN LET child == node_id(t.nodes, m.board, self)
                             made == MoveNode(t.nodes, m.board, self)
                         IN  expand([nodes |-> put(made, self,
                                         [made[self] EXCEPT !.children =
                                             map_put(made[self].children, move, child)]),
                                     heap |-> m.heap,
                                     error |-> NONE],
                                    self, b, rest, again)
                    ELSE IF m.error = InvalidPositionException
                    THEN expand([t EXCEPT !.heap = m.heap], self, b, rest, again)
                    ELSE {[t EXCEPT !.heap = m.heap, !.error = m.error]}
                    : m \in make_child_outcomes(Machine(b, t.heap), move)}

\* lines 51-59 with a childless node marked as stalemated whatever its tracker
mark_and_report_stalemate(t, self) ==
    LET node == t.nodes[self]
        marked == IF node.children = EmptyMap
                  THEN put(t.nodes, self,
                           [node EXCEPT !.leaf_nodes = node.leaf_nodes \cup {self},
                                        !.is_checkmate = FALSE,
                                        !.is_stalemate = TRUE])
                  ELSE t.nodes
    IN  IF t.error # NONE THEN t
        ELSE IF node.parent = NoNode THEN [t EXCEPT !.nodes = marked]
        ELSE [t EXCEPT !.nodes =
                update_child_leaves(update_child_size(marked, node.parent, self),
                                    node.parent, self)]

\* prepare_children lines 51-59
mark_and_report(t, self) ==
    LET node == t.nodes[self]
        in_check_now == node.board.state.check_vectors[node.board.state.turn] # << >>
        marked == IF node.children = EmptyMap
                  THEN put(t.nodes, self,
                           [node EXCEPT !.leaf_nodes = node.leaf_nodes \cup {self},
                                        !.is_checkmate = in_check_now,
                                        !.is_stalemate = ~in_check_now])
                  ELSE t.nodes
    IN  IF t.error # NONE THEN t
        ELSE IF node.parent = NoNode THEN [t EXCEPT !.nodes = marked]
        ELSE [t EXCEPT !.nodes =
                update_child_leaves(update_child_size(marked, node.parent, self),
                                    node.parent, self)]

\* a prepare_children whose try block lets no exception out
prepare_children_quiet(t, self) ==
    LET gen == generate_legal_moves(t.nodes[self].board)
        rebound == rebind_leaf_nodes(t.nodes, self)
        reset == put(rebound, self,
                     reset_children([rebound[self] EXCEPT !.board = gen.board]))
        begun == [t EXCEPT !.nodes = reset]
    IN  {mark_and_report([u EXCEPT !.error = NONE], self)
            : u \in expand(begun, self, gen.board, IF gen.error = NONE THEN gen.moves ELSE {},
                           IF gen.error = NONE THEN gen.again ELSE {})}

\* prepare_children: the states the call can end in (one unless a child raises)
prepare_children(t, self) ==
    LET gen == generate_legal_moves(t.nodes[self].board)
        rebound == rebind_leaf_nodes(t.nodes, self)
        reset == put(rebound, self,
                     reset_children([rebound[self] EXCEPT !.board = gen.board]))
        begun == [t EXCEPT !.nodes = reset]
    IN  IF gen.error # NONE THEN {[begun EXCEPT !.error = gen.error]}
        ELSE {mark_and_report(u, self)
                 : u \in expand(begun, self, gen.board, gen.moves, gen.again)}

\* sorted(..., reverse=reverse, key=itemgetter(0)) of a set of scores: ascending,
\* descending if reverse
RECURSIVE sorted(_, _)
sorted(scores, reverse) ==
    IF scores = {} THEN << >>
    ELSE LET first == CHOOSE s \in scores :
                        \A o \in scores : IF reverse THEN ~float_less(s, o)
                                                     ELSE ~float_less(o, s)
         IN  << first >> \o sorted(scores \ {first}, reverse)

\* calculate_score lines 70-88; its return value is the score it stores.
\* sorted_child_scores is kept as the list of its runs of equal score, each
\* with the moves of the run: within a run the entries stand in the order the
\* children were made in, which is the iteration order of Python sets and
\* differs from run to run.
RECURSIVE calculate_score(_, _)
RECURSIVE score_children(_, _, _)

score_children(nodes, self, moves) ==
    IF moves = {} THEN nodes
    ELSE score_children(calculate_score(nodes, nodes[self].children[min_move(moves)]),
                        self, moves \ {min_move(moves)})

\* a score taken from the first sorted child instead of the last
calculate_score_first_child(nodes, self) ==
    LET node == nodes[self]
        color_modifier == IF node.board.state.turn = WHITE THEN 1 ELSE -1
        below == score_children(nodes, self, DOMAIN node.children)
        reverse == node.board.state.turn = BLACK
        score_of(move) == below[node.children[move]].score
        order == sorted({score_of(move) : move \in DOMAIN node.children}, reverse)
        ranked == [i \in 1..Len(order) |->
                      [score |-> order[i],
                       moves |-> {move \in DOMAIN node.children : score_of(move) = order[i]}]]
        index == Cardinality(DOMAIN node.children) - 1
    IN  IF node.is_checkmate
        THEN put(nodes, self, [node EXCEPT !.score = Float(100 * color_modifier, 0)])
        ELSE IF node.is_stalemate
        THEN put(nodes, self, [node EXCEPT !.score = Float(0, 0)])
        ELSE IF node.children = EmptyMap
        THEN put(nodes, self, [node EXCEPT !.score = Float(node.board.state.material, 0)])
        ELSE put(below, self,
                 [below[self] EXCEPT !.sorted_child_scores = ranked,
                                     !.score = Float(order[1].num, order[1].exp + index)])

calculate_score(nodes, self) ==
    LET node == nodes[self]
        color_modifier == IF node.board.state.turn = WHITE THEN 1 ELSE -1
        below == score_children(nodes, self, DOMAIN node.children)
        reverse == node.board.state.turn = BLACK
        score_of(move) == below[node.children[move]].score
        order == sorted({score_of(move) : move \in DOMAIN node.children}, reverse)
        ranked == [i \in 1..Len(order) |->
                      [score |-> order[i],
                       moves |-> {move \in DOMAIN node.children : score_of(move) = order[i]}]]
        \* lines 84-86: each entry overwrites score; the last one stays
        last == order[Len(order)]
        index == Cardinality(DOMAIN node.children) - 1
    IN  IF node.is_checkmate
        THEN put(nodes, self, [node EXCEPT !.score = Float(100 * color_modifier, 0)])
        ELSE IF node.is_stalemate
        THEN put(nodes, self, [node EXCEPT !.score = Float(0, 0)])
        ELSE IF node.children = EmptyMap
        THEN put(nodes, self, [node EXCEPT !.score = Float(node.board.state.material, 0)])
        ELSE put(below, self,
                 [below[self] EXCEPT !.sorted_child_scores = ranked,
                                     !.score = Float(last.num, last.exp + index)])

(* engine.py: Engine *)

\* self.depth < self.max_depth and self.root.size < self.max_breadth, a limit
\* of INF being math.inf
below_limit(value, limit) == limit = INF \/ value < limit

\* a make_move that keeps the new root's parent
Engine_make_move_keeps_parent(e, move) ==
    IF move \notin DOMAIN e.nodes[e.root].children
    THEN [e EXCEPT !.error = KeyError]
    ELSE [nodes |-> e.nodes,
          root |-> e.nodes[e.root].children[move],
          depth |-> e.depth - 1,
          error |-> NONE]

\* Engine.make_move lines 129-132 on e = [nodes, root, depth, error]
Engine_make_move(e, move) ==
    IF move \notin DOMAIN e.nodes[e.root].children
    THEN [e EXCEPT !.error = KeyError]
    ELSE LET child == e.nodes[e.root].children[move]
         IN  [nodes |-> put(e.nodes, child, [e.nodes[child] EXCEPT !.parent = NoNode]),
              root |-> child,
              depth |-> e.depth - 1,
              error |-> NONE]

\* suggestions in the order calculate_score left them in
get_all_suggestions_unreversed(nodes, self) == nodes[self].sorted_child_scores

\* Engine.get_all_suggestions lines 126-127, generate_suggestions lines 122-124:
\* reversed(self.root.sorted_child_scores), here the runs of equal score
get_all_suggestions(nodes, self) ==
    LET scores == nodes[self].sorted_child_scores
    IN  [i \in 1..Len(scores) |-> scores[Len(scores) + 1 - i]]

---------------------------------------------------------------------------
(* game.py: Game.generate_starting_position and Game.__init__ lines 24-25 *)

generate_starting_position ==
    [id \in PieceIds |->
        GamePiece(id,
                  IF id <= 8 THEN Square(id - 1, 0)
                  ELSE IF id <= 16 THEN Square(id - 9, 1)
                  ELSE IF id <= 24 THEN Square(id - 17, 6)
                  ELSE Square(id - 25, 7),
                  FALSE)]

\* Board(position, BoardState(EmptyMove(), turn, 0, CheckVectors(), kings)); rebuild()
NewBoard(placed, turn, kings) ==
    rebuild(Machine(Board(placed, BoardState(EmptyMove, turn, 0, << >>, kings)), {}), placed)

\* KingLocations(): the defaults e1 and e8
DefaultKings == KingLocations(Square(4, 0), Square(4, 7))

\* Start positions.  Each is set up the way Game.__init__ sets up the standard
\* one: the GamePiece objects are made unmoved, the Board is built from them and
\* rebuild() scans every piece.  `region` bounds the moves the caller plays
\* (both squares inside [cols] x [rows]); the engine's own enumeration is whole.
Region(lo_col, hi_col, lo_row, hi_row) ==
    {Square(c, r) : c \in lo_col..hi_col, r \in lo_row..hi_row}

StartPositions ==
    << \* the standard position; the caller plays on the d and e files
       [placed |-> generate_starting_position, turn |-> WHITE, kings |-> DefaultKings,
        region |-> Region(3, 4, 0, 7)],
       \* white Kc6 Qd7, black Ka8, white to move: Qc7 stalemates, Qb7 mates
       [placed |-> << GamePiece(5, Square(2, 5), FALSE), GamePiece(4, Square(3, 6), FALSE),
                      GamePiece(29, Square(0, 7), FALSE) >>,
        turn |-> WHITE, kings |-> KingLocations(Square(2, 5), Square(0, 7)),
        region |-> Region(0, 3, 5, 7)],
       \* white Kh1 Ra5 Na6, black Ka8, white to move: Nc7 is a double check
       [placed |-> << GamePiece(5, Square(7, 0), FALSE), GamePiece(1, Square(0, 4), FALSE),
                      GamePiece(2, Square(0, 5), FALSE), GamePiece(29, Square(0, 7), FALSE) >>,
        turn |-> WHITE, kings |-> KingLocations(Square(7, 0), Square(0, 7)),
        region |-> Region(0, 2, 4, 7)] >>

\* no Square name call is in progress
NoCall == [step |-> "none", square |-> OffBoard, name |-> << >>, parsed |-> OffBoard,
           error |-> "none"]

MaxPlies == 5

FATAL == {ValueError, KeyError}

Init ==
    /\ start_id \in 1..Len(StartPositions)
    /\ LET s == StartPositions[start_id]
           m == NewBoard(s.placed, s.turn, s.kings)
       IN  /\ m.error = NONE
           /\ board = m.board
           /\ ext = m.heap
    /\ outcome = "ok"
    /\ plies = 0
    /\ captured = << >>
    /\ tree = EmptyMap
    /\ root = NoNode
    /\ depth = 0
    /\ pc = "off"
    /\ current_leaves = {}
    /\ moves_made = 0
    /\ config = 0
    /\ call = NoCall
    /\ history = << >>
    /\ pending = None

\* generate_legal_moves yields the child of `move` and the caller goes on from
\* it (Engine.make_move re-roots the tree at a child, lines 129-132)
Yield(gen, move, m) ==
    /\ move[1] \in StartPositions[start_id].region
    /\ move[2] \in StartPositions[start_id].region
    /\ m.error = NONE
    /\ board' = m.board
    /\ ext' = m.heap
    /\ outcome' = "ok"
    /\ plies' = plies + 1
    /\ captured' = IF gen.board.position[move[2]] # NoPiece
                   THEN Append(captured, gen.board.position[move[2]].id)
                   ELSE captured
    /\ UNCHANGED << start_id, tree_vars, name_vars, game_vars >>

\* the child of `move` is yielded and the caller stays on this board (the
\* child is a sibling of the line played): what remains is the shared heap
Sibling(gen, move, m) ==
    /\ m.error = NONE
    /\ board' = gen.board
    /\ ext' = m.heap
    /\ outcome' = "ok"
    /\ UNCHANGED << plies, captured, start_id, tree_vars, name_vars, game_vars >>

\* lines 294-295, 310-311, 322-323: the candidate is skipped
Skip(gen, move, m) ==
    /\ m.error = InvalidPositionException
    /\ board' = gen.board
    /\ ext' = m.heap
    /\ outcome' = InvalidPositionException
    /\ UNCHANGED << plies, captured, start_id, tree_vars, name_vars, game_vars >>

\* lines 296-299: any other exception leaves generate_legal_moves
Propagate(gen, move, m) ==
    /\ m.error \in FATAL
    /\ board' = gen.board
    /\ ext' = m.heap
    /\ outcome' = m.error
    /\ UNCHANGED << plies, captured, start_id, tree_vars, name_vars, game_vars >>

Next ==
    /\ outcome \notin FATAL
    /\ plies < MaxPlies
    /\ LET gen == generate_legal_moves(board)
       IN  /\ gen.error = NONE
           /\ \E move \in gen.moves :
                \E m \in make_child_outcomes(Machine(gen.board, ext), move) :
                    \/ Yield(gen, move, m)
                    \/ Sibling(gen, move, m)
                    \/ Skip(gen, move, m)
                    \/ Propagate(gen, move, m)

Spec == Init /\ [][Next]_vars

\* the squares make_move is called with out of turn: a8, c6, e2, e7, e4, b3
OutOfTurnSquares ==
    {Square(0, 7), Square(2, 5), Square(4, 1), Square(4, 6), Square(4, 3), Square(1, 2)}

\* the start square is empty or holds a piece of the side that is not to move
out_of_turn(b, move) ==
    \/ b.position[move[1]] = NoPiece
    \/ ColorOf(b.position[move[1]].id) # b.state.turn

\* board.make_move(move) called out of turn on the Board itself: what the
\* call leaves behind
MakeMoveOutOfTurn(move, m) ==
    /\ out_of_turn(board, move)
    /\ board' = m.board
    /\ ext' = m.heap
    /\ outcome' = IF m.error = NONE THEN "ok" ELSE m.error
    /\ UNCHANGED << plies, captured, start_id, tree_vars, name_vars, game_vars >>

\* the moves played before such a call
MovePlies == 2

\* make_move runs on the child Board that make_child made for a candidate of
\* generate_legal_moves, which is then played, or out of turn on the Board
\* reached
MoveNext ==
    /\ outcome \notin FATAL
    /\ LET gen == generate_legal_moves(board)
           out == {Move(start, end) : start \in OutOfTurnSquares, end \in OutOfTurnSquares}
       IN  /\ gen.error = NONE
           /\ \E move \in gen.moves \cup {mv \in out : out_of_turn(board, mv)} :
                \E m \in make_move(Machine(IF out_of_turn(board, move) THEN board
                                            ELSE child_board(gen.board, move), ext), move) :
                    \/ plies < MovePlies /\ ~out_of_turn(board, move) /\ Yield(gen, move, m)
                    \/ MakeMoveOutOfTurn(move, m)

\* the lines of play from the two endgame positions alone
EndgameInit == Init /\ start_id # 1
EndgameSpec == EndgameInit /\ [][Next]_vars

\* lines of play from the start positions, with calls of make_move out of turn
MoveSpec == Init /\ [][MoveNext]_vars

---------------------------------------------------------------------------
(* The Engine: build_tree and make_move on a tree of MoveNode.              *)

\* white Ka8 behind its own pawns a7 b7 b8, black Kh1 behind g1 g2 h2: none of
\* them can move
StuckPosition ==
    << GamePiece(5, Square(0, 7), FALSE), GamePiece(9, Square(0, 6), FALSE),
       GamePiece(10, Square(1, 6), FALSE), GamePiece(11, Square(1, 7), FALSE),
       GamePiece(29, Square(7, 0), FALSE), GamePiece(17, Square(7, 1), FALSE),
       GamePiece(18, Square(6, 1), FALSE), GamePiece(19, Square(6, 0), FALSE) >>

\* the same with a white pawn on c6 and a black pawn on f3: each has two
\* moves, then one, then none
PawnRace ==
    StuckPosition \o << GamePiece(12, Square(2, 5), FALSE), GamePiece(20, Square(5, 2), FALSE) >>

CornerKings == KingLocations(Square(0, 7), Square(7, 0))

\* white Kc6 Qb7, black Ka8 to move: by the rules of chess, checkmate
QueenMate ==
    << GamePiece(5, Square(2, 5), FALSE), GamePiece(4, Square(1, 6), FALSE),
       GamePiece(29, Square(0, 7), FALSE) >>

\* white Ra8 Ka1, black Kh8 behind g7 h7, black to move: a back-rank mate
BlackMated ==
    << GamePiece(5, Square(0, 0), FALSE), GamePiece(1, Square(0, 7), FALSE),
       GamePiece(29, Square(7, 7), FALSE), GamePiece(23, Square(6, 6), FALSE),
       GamePiece(24, Square(7, 6), FALSE) >>

\* black Ra1 Ka8, white Kh1 behind g2 h2, white to move: the same for white
WhiteMated ==
    << GamePiece(29, Square(0, 7), FALSE), GamePiece(25, Square(0, 0), FALSE),
       GamePiece(5, Square(7, 0), FALSE), GamePiece(15, Square(6, 1), FALSE),
       GamePiece(16, Square(7, 1), FALSE) >>

\* the kings shut in as in StuckPosition, a white pawn on d4 and black pawns
\* on e5 and c6: captures both ways within two plies
Skirmish ==
    StuckPosition \o << GamePiece(12, Square(3, 3), FALSE), GamePiece(21, Square(4, 4), FALSE),
                        GamePiece(22, Square(2, 5), FALSE) >>

\* the deepest tree built in one call
DeepTree == 4
\* the breadth caps of the configurations with max_depth infinite
SmallBreadth == 4
TinyBreadth == 2
\* Engine.make_move calls in a run, and in a run from the standard position
MaxMoves == 2
StandardMoves == 1
\* with max_depth infinite, depth is counted up to DepthCap, which stands for
\* every larger value as well (depth is then compared with nothing)
DepthCap == 3

\* Engine(start, max_depth, max_breadth): the configurations explored; every
\* one has a finite limit, as Game.__init__ requires
TreeConfigs ==
    << [placed |-> PawnRace, turn |-> WHITE, kings |-> CornerKings,
        max_depth |-> DeepTree, max_breadth |-> INF, moves |-> MaxMoves],
       [placed |-> PawnRace, turn |-> WHITE, kings |-> CornerKings,
        max_depth |-> DeepTree - 1, max_breadth |-> INF, moves |-> MaxMoves],
       [placed |-> PawnRace, turn |-> WHITE, kings |-> CornerKings,
        max_depth |-> INF, max_breadth |-> SmallBreadth, moves |-> MaxMoves],
       [placed |-> StuckPosition, turn |-> WHITE, kings |-> CornerKings,
        max_depth |-> INF, max_breadth |-> TinyBreadth, moves |-> MaxMoves],
       [placed |-> generate_starting_position, turn |-> WHITE, kings |-> DefaultKings,
        max_depth |-> 1, max_breadth |-> INF, moves |-> StandardMoves],
       [placed |-> QueenMate, turn |-> BLACK,
        kings |-> KingLocations(Square(2, 5), Square(0, 7)),
        max_depth |-> 2, max_breadth |-> INF, moves |-> MaxMoves],
       [placed |-> BlackMated, turn |-> BLACK,
        kings |-> KingLocations(Square(0, 0), Square(7, 7)),
        max_depth |-> 1, max_breadth |-> INF, moves |-> MaxMoves],
       [placed |-> WhiteMated, turn |-> WHITE,
        kings |-> KingLocations(Square(7, 0), Square(0, 7)),
        max_depth |-> 1, max_breadth |-> INF, moves |-> MaxMoves],
       [placed |-> Skirmish, turn |-> WHITE, kings |-> CornerKings,
        max_depth |-> 2, max_breadth |-> INF, moves |-> StandardMoves] >>

\* A limit handed to Game(max_depth, max_breadth): its value, and whether the
\* object is math.inf itself (the default of both parameters) or another
\* float, such as the float(input(...)) of cli.py lines 50-51
MathInf == [value |-> INF, is_math_inf |-> TRUE]
OtherInf == [value |-> INF, is_math_inf |-> FALSE]
Finite(n) == [value |-> n, is_math_inf |-> FALSE]

\* Game(max_depth, max_breadth) on the standard starting position, followed
\* by at most `moves` calls of make_move
GameConfig(depth_arg, breadth_arg, moves) ==
    [placed |-> generate_starting_position, turn |-> WHITE, kings |-> DefaultKings,
     max_depth |-> depth_arg.value, max_breadth |-> breadth_arg.value, moves |-> moves,
     depth_arg |-> depth_arg, breadth_arg |-> breadth_arg]

\* rounds of build_tree followed when neither limit is finite
GameRounds == 1

GameConfigs ==
    << GameConfig(MathInf, MathInf, 0),
       GameConfig(OtherInf, OtherInf, 0),
       GameConfig(MathInf, OtherInf, 0),
       GameConfig(OtherInf, MathInf, 0),
       GameConfig(Finite(1), MathInf, StandardMoves),
       GameConfig(Finite(1), OtherInf, 0),
       GameConfig(MathInf, Finite(2), 0),
       GameConfig(OtherInf, Finite(2), 0),
       GameConfig(Finite(0), MathInf, 0),
       GameConfig(Finite(1), Finite(1), 0) >>

Configs == TreeConfigs \o GameConfigs

max_depth == Configs[config].max_depth
max_breadth == Configs[config].max_breadth

FirstRoot == << << >>, 0 >>

\* Game.__init__ lines 24-26: the Board is rebuilt and Engine(board, ...) made
TreeInit ==
    /\ config \in 1..Len(TreeConfigs)
    /\ LET c == TreeConfigs[config]
           m == NewBoard(c.placed, c.turn, c.kings)
       IN  /\ m.error = NONE
           /\ board = m.board
           /\ ext = m.heap
           /\ tree = MoveNode(EmptyMap, m.board, NoNode)
    /\ root = FirstRoot
    /\ depth = 0
    /\ pc = "idle"
    /\ current_leaves = {}
    /\ moves_made = 0
    /\ outcome = "ok"
    /\ plies = 0
    /\ captured = << >>
    /\ start_id = 0
    /\ call = NoCall
    /\ history = << >>
    /\ pending = None

\* build_tree is called
BuildTree ==
    /\ pc = "idle"
    /\ pc' = "while"
    /\ outcome' = "ok"
    /\ UNCHANGED << tree, root, depth, current_leaves, moves_made, config, ext, board_vars, name_vars, game_vars >>

\* line 115 holds; line 116: current_leaves = list(self.root.leaf_nodes)
BeginRound ==
    /\ pc = "while"
    /\ below_limit(depth, max_depth)
    /\ below_limit(tree[root].size, max_breadth)
    /\ (max_depth = INF /\ max_breadth = INF) => depth < GameRounds
    /\ current_leaves' = tree[root].leaf_nodes
    /\ pc' = "for"
    /\ UNCHANGED << tree, root, depth, moves_made, config, ext, outcome, board_vars, name_vars, game_vars >>

\* lines 117-118: the next leaf of the list, which is in no particular order
\* (a list made from a set).  An exception leaves build_tree.
PrepareChildren(leaf) ==
    /\ pc = "for"
    /\ leaf \in current_leaves
    /\ \E t \in prepare_children([nodes |-> tree, heap |-> ext, error |-> NONE], leaf) :
          /\ tree' = t.nodes
          /\ ext' = t.heap
          /\ IF t.error = NONE
             THEN /\ current_leaves' = current_leaves \ {leaf}
                  /\ UNCHANGED << pc, outcome, pending >>
             \* the exception leaves Game.make_move as well (game.py line 51)
             ELSE /\ current_leaves' = {}
                  /\ pc' = "idle"
                  /\ outcome' = t.error
                  /\ pending' = None
    /\ UNCHANGED << root, depth, moves_made, config, history, board_vars, name_vars >>

\* line 119, after the last leaf of the list
EndRound ==
    /\ pc = "for"
    /\ current_leaves = {}
    /\ depth' = IF max_depth = INF /\ depth >= DepthCap THEN depth ELSE depth + 1
    /\ pc' = "while"
    /\ UNCHANGED << tree, root, current_leaves, moves_made, config, ext, outcome, board_vars, name_vars, game_vars >>

\* line 115 fails; line 120
Finish ==
    /\ pc = "while"
    /\ ~(below_limit(depth, max_depth) /\ below_limit(tree[root].size, max_breadth))
    /\ tree' = calculate_score(tree, root)
    /\ pc' = "idle"
    \* build_tree returns; called by Game.make_move, line 52 follows
    /\ history' = IF pending = None THEN history ELSE Append(history, pending)
    /\ pending' = None
    /\ UNCHANGED << root, depth, current_leaves, moves_made, config, ext, outcome, board_vars, name_vars >>

\* moves a caller may ask for that are never a key of root.children: e2e5
\* and a1a1
OtherMoves == {Move(Square(4, 1), Square(4, 4)), Move(Square(0, 0), Square(0, 0))}

\* Engine.make_move(move), with a key of root.children or with another move
MakeMove(move) ==
    /\ pc = "idle"
    /\ moves_made < Configs[config].moves
    /\ LET e == Engine_make_move([nodes |-> tree, root |-> root, depth |-> depth,
                                  error |-> NONE], move)
       IN  /\ tree' = e.nodes
           /\ root' = e.root
           /\ depth' = e.depth
           /\ outcome' = IF e.error = NONE THEN "ok" ELSE e.error
           /\ moves_made' = IF e.error = NONE THEN moves_made + 1 ELSE moves_made
    /\ UNCHANGED << pc, current_leaves, config, ext, board_vars, name_vars, game_vars >>

TreeNext ==
    \/ BuildTree
    \/ BeginRound
    \/ \E leaf \in current_leaves : PrepareChildren(leaf)
    \/ EndRound
    \/ Finish
    \/ \E move \in DOMAIN tree[root].children \cup OtherMoves : MakeMove(move)

TreeSpec == TreeInit /\ [][TreeNext]_vars

\* A step of build_tree, told by the loop position and the list of leaves
\* alone: BeginRound, PrepareChildren, EndRound and Finish each change one of
\* the two, and no other action is enabled while pc is "while" or "for".
BuildStep ==
    /\ pc \in {"while", "for"}
    /\ pc' \in {"idle", "while", "for"}
    /\ current_leaves' \in {current_leaves, tree[root].leaf_nodes, {}}
                              \cup {current_leaves \ {leaf} : leaf \in current_leaves}

\* build_tree is one thread of control: once called it keeps taking its steps
TreeLiveSpec == TreeSpec /\ WF_<< pc, current_leaves >>(BuildStep)

---------------------------------------------------------------------------
(* game.py: Game(max_depth, max_breadth), then the Engine's operations      *)

GameInit ==
    /\ config \in (Len(TreeConfigs) + 1)..Len(Configs)
    /\ pc = "new"
    /\ board = EmptyMap
    /\ ext = {}
    /\ tree = EmptyMap
    /\ root = NoNode
    /\ depth = 0
    /\ current_leaves = {}
    /\ moves_made = 0
    /\ outcome = "ok"
    /\ plies = 0
    /\ captured = << >>
    /\ start_id = 0
    /\ call = NoCall
    /\ history = << >>
    /\ pending = None

\* Game.__init__ lines 22-27: the check of the limits, the rebuilt Board, the
\* Engine, and the call of build_tree
NewGame ==
    /\ pc = "new"
    /\ LET c == Configs[config]
       IN  IF c.depth_arg.is_math_inf /\ c.breadth_arg.is_math_inf
           THEN /\ outcome' = "ValueError"
                /\ pc' = "rejected"
                /\ UNCHANGED << board, ext, tree, root >>
           ELSE LET m == NewBoard(c.placed, c.turn, c.kings)
                IN  /\ board' = m.board
                    /\ ext' = m.heap
                    /\ tree' = MoveNode(EmptyMap, m.board, NoNode)
                    /\ root' = FirstRoot
                    /\ outcome' = IF m.error = NONE THEN "ok" ELSE m.error
                    /\ pc' = IF m.error = NONE THEN "while" ELSE "rejected"
    /\ UNCHANGED << depth, current_leaves, moves_made, config, plies, captured, start_id,
                    name_vars, game_vars >>

\* a Game.make_move that records the move before the tree is rebuilt
Game_make_move_history_first(move) ==
    /\ pc = "idle"
    /\ moves_made < Configs[config].moves \/ move \notin DOMAIN tree[root].children
    /\ LET e == Engine_make_move([nodes |-> tree, root |-> root, depth |-> depth,
                                  error |-> NONE], move)
       IN  /\ tree' = e.nodes
           /\ root' = e.root
           /\ depth' = e.depth
           /\ outcome' = IF e.error = NONE THEN "ok" ELSE e.error
           /\ moves_made' = IF e.error = NONE THEN moves_made + 1 ELSE moves_made
           /\ pc' = IF e.error = NONE THEN "while" ELSE "idle"
           /\ history' = IF e.error = NONE THEN Append(history, move) ELSE history
           /\ pending' = None
    /\ UNCHANGED << current_leaves, config, ext, board_vars, name_vars >>

\* Game.make_move(move) lines 49-52: Engine.make_move, whose KeyError ends the
\* call, then build_tree, entered here, and history.append once it returns
Game_make_move(move) ==
    /\ pc = "idle"
    /\ moves_made < Configs[config].moves \/ move \notin DOMAIN tree[root].children
    /\ LET e == Engine_make_move([nodes |-> tree, root |-> root, depth |-> depth,
                                  error |-> NONE], move)
       IN  /\ tree' = e.nodes
           /\ root' = e.root
           /\ depth' = e.depth
           /\ outcome' = IF e.error = NONE THEN "ok" ELSE e.error
           /\ moves_made' = IF e.error = NONE THEN moves_made + 1 ELSE moves_made
           /\ pc' = IF e.error = NONE THEN "while" ELSE "idle"
           /\ history' = history
           /\ pending' = IF e.error = NONE THEN move ELSE None
    /\ UNCHANGED << current_leaves, config, ext, board_vars, name_vars >>

GameNext ==
    \/ NewGame
    \/ BuildTree
    \/ BeginRound
    \/ \E leaf \in current_leaves : PrepareChildren(leaf)
    \/ EndRound
    \/ Finish
    \/ \E move \in (IF pc = "idle" THEN DOMAIN tree[root].children ELSE {}) \cup OtherMoves :
          Game_make_move(move)

GameSpec == GameInit /\ [][GameNext]_vars

\* C15: a Game whose max_depth and max_breadth are both infinite is refused
\* with a ValueError before any Board, Engine or tree exists.
C15_InfiniteLimitsRejected ==
    (pc # "new" /\ max_depth = INF /\ max_breadth = INF) =>
        (pc = "rejected" /\ outcome = "ValueError" /\ tree = EmptyMap)

---------------------------------------------------------------------------
(* Square names: to_name and from_name applied to coordinates and to        *)
(* strings (cli.py do_move hands from_name whatever the user typed).        *)

\* the characters of the names tried: files, ranks and others
Chars == {"a", "b", "h", "1", "2", "8", "i", "9", "0", "A", "H", "z"}
\* the longest name tried
MaxNameLen == 3
Names == UNION {[1..n -> Chars] : n \in 0..MaxNameLen}

NameInit ==
    /\ \/ \E sq \in Squares : call = [NoCall EXCEPT !.step = "square", !.square = sq]
       \/ \E name \in Names : call = [NoCall EXCEPT !.step = "name", !.name = name]
    /\ board = EmptyMap
    /\ ext = {}
    /\ outcome = "ok"
    /\ plies = 0
    /\ captured = << >>
    /\ start_id = 0
    /\ tree = EmptyMap
    /\ root = NoNode
    /\ depth = 0
    /\ pc = "off"
    /\ current_leaves = {}
    /\ moves_made = 0
    /\ config = 0
    /\ history = << >>
    /\ pending = None

\* c.to_name()
ToName ==
    /\ call.step = "square"
    /\ call' = [call EXCEPT !.step = "name", !.name = to_name(call.square)]
    /\ UNCHANGED << ext, outcome, board_vars, tree_vars, game_vars >>

\* Square.from_name(name)
FromName ==
    /\ call.step = "name"
    /\ LET made == from_name(call.name)
       IN  /\ call' = [call EXCEPT !.step = "done", !.parsed = made.square,
                                   !.error = made.error]
           /\ outcome' = IF made.error = "none" THEN "ok" ELSE made.error
    /\ UNCHANGED << ext, board_vars, tree_vars, game_vars >>

NameNext == ToName \/ FromName

NameSpec == NameInit /\ [][NameNext]_vars

\* C14: from_name(to_name(c)) = c for every coordinate c with file and rank
\* in 0..7, and from_name raises for every string that is not one character
\* of a-h followed by one character of 1-8 (and for no other).
C14_NameRoundTrip ==
    call.step = "done" =>
        /\ call.square # OffBoard => (call.error = "none" /\ call.parsed = call.square)
        /\ call.error = "ValueError" <=>
              ~(/\ Len(call.name) = 2
                /\ call.name[1] \in {"a", "b", "c", "d", "e", "f", "g", "h"}
                /\ call.name[2] \in {"1", "2", "3", "4", "5", "6", "7", "8"})
        /\ call.error = "none" => to_name(call.parsed) = call.name

\* h8 has been named and parsed back
C14_CornerRoundTrip ==
    /\ call.step = "done"
    /\ call.square = Square(7, 7)
    /\ call.name = << "h", "8" >>

---------------------------------------------------------------------------
(* What the rules of chess say of a square map, computed from the map alone *)
(* (no index of the Board is read).                                         *)

\* walking from `from` along `direction`, `target` is met within `steps` steps
\* before any occupied square
RECURSIVE ray_hits(_, _, _, _, _)
ray_hits(position, from, direction, target, steps) ==
    IF steps = 0 THEN FALSE
    ELSE LET next == apply_diff(from, direction)
         IN  IF next = OffBoard THEN FALSE
             ELSE IF next = target THEN TRUE
             ELSE IF position[next] # NoPiece THEN FALSE
             ELSE ray_hits(position, next, direction, target, steps - 1)

attacks(position, from, target) ==
    LET piece == position[from]
    IN  \E i \in 1..Len(vectors(piece)) :
            /\ vectors(piece)[i].can_capture
            /\ ray_hits(position, from, vectors(piece)[i].direction, target,
                        vectors(piece)[i].max_distance)

attacked(position, target, by_color) ==
    \E from \in Squares :
        /\ position[from] # NoPiece
        /\ ColorOf(position[from].id) = by_color
        /\ attacks(position, from, target)

kings_of(position, color) ==
    {sq \in Squares : /\ position[sq] # NoPiece
                      /\ TypeOf(position[sq].id) = KING
                      /\ ColorOf(position[sq].id) = color}

in_check(position, color) ==
    \E sq \in kings_of(position, color) : attacked(position, sq, Other(color))

\* the moves whose child generate_legal_moves yields from b
yielded_moves(b, h) ==
    LET gen == generate_legal_moves(b)
    IN  {move \in gen.moves :
            \E m \in make_child_outcomes(Machine(gen.board, h), move) : m.error = NONE}

\* the errors that applying the candidate `move` to the position reached raises
errors_of(move) ==
    {m.error : m \in make_child_outcomes(Machine(generate_legal_moves(board).board, ext), move)}

\* MoveNode(board).prepare_children() on the position reached
children_prepared ==
    prepare_children([nodes |-> MoveNode(EmptyMap, board, NoNode), heap |-> ext,
                      error |-> NONE], << << >>, 0 >>)

---------------------------------------------------------------------------
(* Claims on the Board, checked under Spec *)

\* C16: the illegal-position error of a candidate never leaves the
\* enumeration (the candidate is skipped and the next one is tried), and any
\* other error of a candidate leaves generate_legal_moves and
\* MoveNode.prepare_children: prepare_children ends in an error exactly when
\* some candidate's application raises an error other than the
\* illegal-position error, it then ends in such an error, and otherwise its
\* children are the candidates whose application raises nothing.  Checked on
\* the lines of play from the two endgame positions (EndgameSpec), those on
\* which both kinds of error are raised.
C16_OnlyIllegalPositionSkipped ==
    outcome \notin FATAL =>
        LET gen == generate_legal_moves(board)
            errors == UNION {{<< move, m.error >> :
                                 m \in make_child_outcomes(Machine(gen.board, ext), move)}
                             : move \in gen.moves}
            fatal == {e \in errors : e[2] \in FATAL}
            applied == {move \in gen.moves :
                           \A e \in errors : e[1] = move => e[2] = NONE}
        IN  gen.error = NONE =>
              \A r \in children_prepared :
                /\ r.error # InvalidPositionException
                /\ fatal # {} => r.error \in {e[2] : e \in fatal}
                /\ fatal = {} =>
                      /\ r.error = NONE
                      /\ DOMAIN r.nodes[<< << >>, 0 >>].children = applied

\* a position where one candidate raises the illegal-position error and
\* another candidate another error, which leaves prepare_children
C16_SkippedThenFatal ==
    /\ outcome \notin FATAL
    /\ \E r \in children_prepared : r.error \in FATAL
    /\ \E move \in generate_legal_moves(board).moves :
          InvalidPositionException \in errors_of(move)

\* the GamePiece objects of the position reached, by square
RECURSIVE pieces_from(_)
pieces_from(sq) ==
    IF sq > 63 THEN << >>
    ELSE (IF board.position[sq] # NoPiece THEN << board.position[sq] >> ELSE << >>)
             \o pieces_from(sq + 1)

\* rebuild() on the position reached: the full scan of every piece
rebuilt == rebuild(Machine(board, ext), pieces_from(0))

\* C17: after any moves applied through make_child from a rebuilt position,
\* the piece-to-destinations index and the square-to-seeing-pieces index are
\* those that rebuild() computes on the same square map, turn and piece flags.
C17_IndexesMatchRebuild ==
    (plies > 0 /\ rebuilt.error = NONE) =>
        /\ \A id \in PieceIds :
              board.available_moves[id].squares = rebuilt.board.available_moves[id].squares
        /\ \A sq \in Squares :
              {p.id : p \in board.relevant_piece_squares[sq]}
                  = {p.id : p \in rebuilt.board.relevant_piece_squares[sq]}

\* sq lies along one of the piece's movement vectors, at most max_distance
\* steps from the piece's square
within_reach(piece, sq) ==
    \E i \in 1..Len(vectors(piece)) :
        on_ray(piece.square, vectors(piece)[i].direction, sq,
               IF vectors(piece)[i].max_distance > 7 THEN 7
               ELSE vectors(piece)[i].max_distance)

\* C18: in every position reached, each destination recorded for a piece lies
\* along one of its movement vectors within that vector's max distance of the
\* piece's square, also after incremental rescans: an unmoved pawn has no
\* destination more than two squares ahead, a moved pawn none more than one.
C18_DestinationsWithinReach ==
    \A id \in PieceIds :
        board.available_moves[id].key # NoPiece =>
            \A sq \in board.available_moves[id].squares :
                within_reach(board.available_moves[id].key, sq)

\* C21: make_move with a start square that is empty or holds a piece of the
\* side not to move raises an error and leaves the Board as it was: square
\* map, side to move, material, check trackers and both indexes, the
\* destination set of the piece on the start square included.
C21_RefusedMoveChangesNothing ==
    [][\A start \in OutOfTurnSquares, end \in OutOfTurnSquares :
          \A m \in make_move(Machine(board, ext), Move(start, end)) :
              MakeMoveOutOfTurn(Move(start, end), m) =>
                  /\ outcome' \in FATAL
                  /\ board'.position = board.position
                  /\ board'.state = board.state
                  /\ \A id \in PieceIds :
                        board'.available_moves[id].squares
                            = board.available_moves[id].squares
                  /\ \A sq \in Squares :
                        {p.id : p \in board'.relevant_piece_squares[sq]}
                            = {p.id : p \in board.relevant_piece_squares[sq]}]_vars

\* the cache of every piece of the square map, by square
caches(b, h) ==
    [sq \in Squares |->
        IF b.position[sq] = NoPiece THEN {} ELSE possible_squares(b.position[sq], h)]

\* C22: a candidate that make_child accepts or rejects with an illegal-position
\* error, the caller staying on the parent, leaves the parent as it was:
\* square map with the pieces' caches, side to move, material, check trackers
\* and the content of both indexes.
C22_ParentUnchanged ==
    [][(plies' = plies /\ outcome' \notin FATAL) =>
            /\ board'.position = board.position
            /\ caches(board', ext') = caches(board, ext)
            /\ board'.state = board.state
            /\ \A id \in PieceIds :
                 board'.available_moves[id].squares = board.available_moves[id].squares
            /\ \A sq \in Squares :
                 {p.id : p \in board'.relevant_piece_squares[sq]}
                     = {p.id : p \in board.relevant_piece_squares[sq]}]_vars

\* C23: with an attack path recorded for the side to move, every position
\* that generate_legal_moves yields comes from a move of that side's king or,
\* only when exactly one path is recorded, from a move of another piece onto a
\* square of that path; with two or more paths only king moves are yielded.
C23_InCheckKingOrBlock ==
    LET turn == board.state.turn
        recorded == board.state.check_vectors[turn]
    IN  recorded # << >> =>
            \A move \in yielded_moves(board, ext) :
                \/ /\ board.position[move[1]] # NoPiece
                   /\ TypeOf(board.position[move[1]].id) = KING
                   /\ ColorOf(board.position[move[1]].id) = turn
                \/ /\ Len(recorded) = 1
                   /\ move[2] \in SeqToSet(recorded[1])

\* on a line from the standard start one path is recorded and a piece other
\* than the king answers it
C23_CheckBlocked ==
    LET turn == board.state.turn
        recorded == board.state.check_vectors[turn]
    IN  /\ start_id = 1
        /\ Len(recorded) = 1
        /\ \E move \in yielded_moves(board, ext) :
              /\ TypeOf(board.position[move[1]].id) # KING
              /\ move[2] \in SeqToSet(recorded[1])

\* C1: every position yielded by generate_legal_moves on a line of play from
\* the standard start leaves the king of the side that just moved unattacked,
\* the attack being recomputed from the child's square map alone.
C1_YieldedKingNotAttacked ==
    (start_id = 1 /\ plies > 0) =>
        ~in_check(board.position, board.state.next_turn)

\* C2: at most one of the two check_vectors of a position is non-empty, and a
\* non-empty one is that of the side about to move.
C2_OneCheckTracker ==
    /\ \E c \in Colors : board.state.check_vectors[c] = << >>
    /\ \A c \in Colors :
          board.state.check_vectors[c] # << >> => c = board.state.turn

\* the signed value of a captured piece: + for a black piece, - for a white one
signed_value(id) ==
    IF ColorOf(id) = BLACK THEN PieceValue(TypeOf(id)) ELSE 0 - PieceValue(TypeOf(id))

RECURSIVE signed_sum(_)
signed_sum(ids) ==
    IF ids = << >> THEN 0 ELSE signed_value(Head(ids)) + signed_sum(Tail(ids))

\* C6: the material of a position is the sum, over the captures made on the
\* way to it, of +value for a captured black piece and -value for a white one
\* (0 before any capture; a move to an empty square changes nothing).
C6_MaterialIsSignedSum ==
    board.state.material = signed_sum(captured)

\* a capture of a white piece and a capture of a black piece have been made
C6_BothColorsCaptured ==
    /\ \E i \in 1..Len(captured) : ColorOf(captured[i]) = WHITE
    /\ \E i \in 1..Len(captured) : ColorOf(captured[i]) = BLACK
    /\ board.state.material # 0

\* the side to move has its king and nothing else, and wherever the king steps
\* (capturing what stands there) it is attacked; the side that moved is not
\* itself in check
lone_king_trapped(b) ==
    LET turn == b.state.turn
        mine == {sq \in Squares : b.position[sq] # NoPiece /\ ColorOf(b.position[sq].id) = turn}
    IN  /\ Cardinality(mine) = 1
        /\ ~in_check(b.position, Other(turn))
        /\ mine = kings_of(b.position, turn)
        /\ \A from \in mine :
             \A i \in 1..Len(KingVectors) :
                LET to == apply_diff(from, KingVectors[i].direction)
                    after == [b.position EXCEPT ![to] = b.position[from], ![from] = NoPiece]
                IN  to # OffBoard => attacked(after, to, Other(turn))

\* C8 (enumeration): from a position in which the side to move has only its
\* king and every step of the king (captures included) leaves it attacked,
\* generate_legal_moves yields nothing.
C8_TrappedLoneKingYieldsNothing ==
    lone_king_trapped(board) => yielded_moves(board, ext) = {}

\* the squares from the attacker up to, not including, the king along
\* `direction`; OffBoard is among them if the king is not met within `steps`
RECURSIVE squares_before(_, _, _, _)
squares_before(from, king, direction, steps) ==
    IF steps = 0 \/ from = OffBoard THEN {OffBoard}
    ELSE LET next == apply_diff(from, direction)
         IN  IF next = king THEN {from}
             ELSE {from} \cup squares_before(next, king, direction, steps - 1)

\* the attackers of the king on `king` and the squares each would have blocked
attack_paths(position, king, by_color) ==
    {path \in UNION {{squares_before(from, king, vectors(position[from])[i].direction,
                                     vectors(position[from])[i].max_distance) :
                        i \in {j \in 1..Len(vectors(position[from])) :
                                    vectors(position[from])[j].can_capture}} :
                     from \in {sq \in Squares : /\ position[sq] # NoPiece
                                                /\ ColorOf(position[sq].id) = by_color}} :
        OffBoard \notin path}

\* C9: blocking_squares is empty unless exactly one path is recorded; for the
\* side to move with one path recorded it is the attacker's square and the
\* squares strictly between attacker and king, never the king's square.
C9_BlockingSquares ==
    \A c \in Colors :
        LET recorded == board.state.check_vectors[c]
            blocking == blocking_squares(recorded)
        IN  /\ Len(recorded) # 1 => blocking = {}
            /\ (Len(recorded) = 1 /\ c = board.state.turn) =>
                 \A king \in kings_of(board.position, c) :
                    /\ king \notin blocking
                    /\ blocking \in attack_paths(board.position, king, Other(c))

\* the side to move is in check from a knight: its blocking set is one square
C9_KnightCheck ==
    LET c == board.state.turn
        blocking == blocking_squares(board.state.check_vectors[c])
    IN  /\ Cardinality(blocking) = 1
        /\ \E sq \in blocking : /\ board.position[sq] # NoPiece
                                /\ TypeOf(board.position[sq].id) = KNIGHT

---------------------------------------------------------------------------
(* Claims on the Engine, checked under TreeSpec (C3 under TreeLiveSpec) *)

\* the nodes reachable from `self` through the children maps, itself included
RECURSIVE subtree(_, _)
subtree(nodes, self) ==
    {self} \cup UNION {subtree(nodes, nodes[self].children[move]) :
                        move \in DOMAIN nodes[self].children}

\* C3: every call of build_tree comes to its end, whatever configuration with
\* a finite max_depth or a finite max_breadth it runs under.
C3_BuildTreeTerminates ==
    (pc = "while") ~> (pc = "idle")

\* C4: between calls, the leaf_nodes of the root and of every node under it is
\* exactly the set of childless nodes of its subtree.
C4_LeafNodesExact ==
    pc = "idle" =>
        \A n \in subtree(tree, root) :
            tree[n].leaf_nodes = {d \in subtree(tree, n) : tree[d].children = EmptyMap}

\* C5: between calls, the size of the root and of every node under it is the
\* number of nodes of its subtree, itself included.
C5_SizeIsNodeCount ==
    pc = "idle" =>
        \A n \in subtree(tree, root) :
            tree[n].size = Cardinality(subtree(tree, n))

\* C7: from the standard position generate_legal_moves yields 20 positions, 16
\* by pawn moves and 4 by knight moves, and build_tree with max_depth = 1
\* leaves a root with 20 children, those 20 as its leaf set, and size 21.
C7_StandardStartTwentyMoves ==
    (config = 5 /\ moves_made = 0) =>
        LET first == tree[FirstRoot]
            moves == yielded_moves(first.board, ext)
            by(type) == {move \in moves : TypeOf(first.board.position[move[1]].id) = type}
        IN  /\ Cardinality(moves) = 20
            /\ Cardinality(by(PAWN)) = 16
            /\ Cardinality(by(KNIGHT)) = 4
            /\ (pc = "idle" /\ depth = 1) =>
                 /\ DOMAIN first.children = moves
                 /\ first.leaf_nodes = {first.children[move] : move \in moves}
                 /\ Cardinality(first.leaf_nodes) = 20
                 /\ first.size = 21

\* build_tree with max_depth = 1 has run on the standard position
C7_StandardTreeBuilt ==
    /\ config = 5
    /\ moves_made = 0
    /\ pc = "idle"
    /\ depth = 1
    /\ tree[FirstRoot].children # EmptyMap

\* C10: Engine.make_move with a key of root.children makes that child the
\* root, with no parent and with the children, size and leaf set it had; no
\* node of a discarded sibling's subtree is under the new root or in its leaf
\* set; depth goes down by one.
C10_AdvanceRootFrame ==
    [][\A move \in DOMAIN tree[root].children :
          MakeMove(move) =>
            LET child == tree[root].children[move]
                discarded == subtree(tree, root) \ subtree(tree, child)
            IN  /\ root' = child
                /\ tree'[child].parent = NoNode
                /\ tree'[child].children = tree[child].children
                /\ tree'[child].size = tree[child].size
                /\ tree'[child].leaf_nodes = tree[child].leaf_nodes
                /\ subtree(tree', child) = subtree(tree, child)
                /\ subtree(tree', child) \cap discarded = {}
                /\ tree'[child].leaf_nodes \cap discarded = {}
                /\ depth' = depth - 1]_vars

\* the tree has been re-rooted at a child that has children of its own
C10_ReRooted ==
    /\ moves_made > 0
    /\ pc = "idle"
    /\ root # FirstRoot
    /\ tree[root].parent = NoNode
    /\ tree[root].children # EmptyMap
\* C11: after build_tree the suggestion list is best first for the side to
\* move at the root (scores non-increasing for white, non-decreasing for
\* black) and has exactly one entry for every child of the root.
C11_SuggestionsBestFirst ==
    (pc = "idle" /\ outcome = "ok") =>
        LET suggestions == get_all_suggestions(tree, root)
            white == tree[root].board.state.turn = WHITE
        IN  /\ \A i, j \in 1..Len(suggestions) :
                  i < j => IF white
                           THEN ~float_less(suggestions[i].score, suggestions[j].score)
                           ELSE ~float_less(suggestions[j].score, suggestions[i].score)
            /\ \A i, j \in 1..Len(suggestions) :
                  i # j => suggestions[i].moves \cap suggestions[j].moves = {}
            /\ UNION {suggestions[i].moves : i \in 1..Len(suggestions)}
                  = DOMAIN tree[root].children

\* build_tree has scored a root whose children have different scores
C11_DifferentScores ==
    /\ pc = "idle"
    /\ outcome = "ok"
    /\ Len(tree[root].sorted_child_scores) > 1

\* the nodes a scoring pass from the root has just scored
scored_nodes == IF pc = "idle" /\ outcome = "ok" THEN subtree(tree, root) ELSE {}

\* C12: a checkmate node scores 100 for the side not to move, positive being
\* white's favour: -100 with white to move, +100 with black to move.
C12_CheckmateFavoursTheMater ==
    \A n \in scored_nodes :
        tree[n].is_checkmate =>
            tree[n].score = Float(IF tree[n].board.state.turn = WHITE THEN -100 ELSE 100, 0)

\* C13: root.size never exceeds max_breadth, during or after build_tree.
C13_SizeWithinBreadth ==
    max_breadth # INF => tree[root].size <= max_breadth

\* the scores of the children of a node, and the one best for the side to move
child_scores(n) == {tree[tree[n].children[move]].score : move \in DOMAIN tree[n].children}
best_score(n) ==
    CHOOSE s \in child_scores(n) :
        \A o \in child_scores(n) : IF tree[n].board.state.turn = WHITE
                                    THEN ~float_less(s, o)
                                    ELSE ~float_less(o, s)

\* C19: in sorted_child_scores the child most favourable to the side to move
\* comes first: the highest score with white to move, the lowest with black.
C19_BestChildFirst ==
    \A n \in scored_nodes :
        tree[n].children # EmptyMap =>
            tree[n].sorted_child_scores[1].score = best_score(n)

\* C20: a node with n >= 1 children scores its last sorted child's score times
\* 0.5^(n-1) (the last is the child most favourable to the side to move); a
\* childless node that is not terminal scores its material, a stalemate 0.
C20_LastChildScore ==
    \A n \in scored_nodes :
        LET node == tree[n]
            count == Cardinality(DOMAIN node.children)
            ranked == node.sorted_child_scores
            last == ranked[Len(ranked)].score
        IN  /\ node.is_stalemate => node.score = Float(0, 0)
            /\ (node.children = EmptyMap /\ ~node.is_stalemate /\ ~node.is_checkmate)
                  => node.score = Float(node.board.state.material, 0)
            /\ node.children # EmptyMap =>
                  /\ last = best_score(n)
                  /\ node.score = Float(last.num, last.exp + count - 1)

\* a scored node with two children, the first of them with a score other than
\* 0: the weighted sum over both ranks differs from the score stored
C20_SumWouldDiffer ==
    \E n \in scored_nodes :
        /\ Cardinality(DOMAIN tree[n].children) = 2
        /\ tree[n].sorted_child_scores[1].score # Float(0, 0)
        /\ tree[n].score # Float(0, 0)
\* C24: when prepare_children of a node returns, the node has no child if and
\* only if exactly one of is_checkmate and is_stalemate is set; without a
\* child is_checkmate is set exactly when the tracker of the side to move
\* holds a path, and the leaf set is the node alone; with a child both flags
\* are false and the node is not in its own leaf set.
C24_FlagsAfterExpand ==
    [][\A leaf \in current_leaves :
          (pc = "for" /\ pc' = "for" /\ leaf \notin current_leaves') =>
              LET node == tree'[leaf]
                  state == node.board.state
              IN  /\ (node.children = EmptyMap) <=> (node.is_checkmate # node.is_stalemate)
                  /\ node.children = EmptyMap =>
                        /\ node.is_checkmate <=> (state.check_vectors[state.turn] # << >>)
                        /\ node.leaf_nodes = {leaf}
                  /\ node.children # EmptyMap =>
                        /\ ~node.is_checkmate
                        /\ ~node.is_stalemate
                        /\ leaf \notin node.leaf_nodes]_vars

\* the tree holds an expanded node with children and a stalemated one, which
\* is its own only leaf
C24_StalemateAndInner ==
    \E stuck, inner \in DOMAIN tree :
        /\ tree[stuck].is_stalemate
        /\ tree[stuck].children = EmptyMap
        /\ tree[stuck].leaf_nodes = {stuck}
        /\ tree[inner].children # EmptyMap

---------------------------------------------------------------------------
(* Claims on the Game, checked under GameSpec *)

\* C25: Game.make_move with a move that is no key of the root's children
\* fails and leaves root, depth, the tree and the history as they were; the
\* history grows only when build_tree returns after the re-root, and then by
\* exactly the move that the root was advanced by.
C25_HistoryFollowsMakeMove ==
    [][/\ \A move \in OtherMoves :
            (pc = "idle" /\ move \notin DOMAIN tree[root].children /\ Game_make_move(move)) =>
                /\ outcome' \in FATAL
                /\ UNCHANGED << root, depth, tree, history >>
       /\ history' # history =>
            /\ pc = "while" /\ pc' = "idle"
            /\ outcome' = "ok"
            /\ root' = root
            /\ history' = Append(history, tree[root].board.state.last_move)
            /\ Len(history') <= moves_made
       /\ (pc = "while" /\ pc' = "idle" /\ pending # None /\ outcome' = "ok") =>
            history' = Append(history, pending)]_vars

\* a move was made and recorded, and a later call with a move that is no key
\* of the new root's children has failed
C25_RecordedThenRefused ==
    /\ pc = "idle"
    /\ outcome = KeyError
    /\ Len(history) = 1
    /\ tree[root].board.state.last_move = history[1]

====
